---- MODULE Spec2Model ----
(***************************************************************************)
(* CPU scheduling simulator (parta.c): the process table, the dispatch     *)
(* step run_proc, and the FCFS and round-robin policies built on it.       *)
(*                                                                         *)
(* A table is a sequence of records [pid, burst_left, wait]; C index c is  *)
(* position c + 1 of the sequence.  The null pointer is NULL.  init_procs  *)
(* never returns a table with no record, so a table is NULL exactly when   *)
(* it is the empty sequence.                                               *)
(***************************************************************************)
EXTENDS Integers, Sequences, FiniteSets, TLC

VARIABLES
    bursts,        \* the caller's burst array, as handed to init_procs
    procs,         \* the process table (NULL when there is none)
    plen,          \* argument plen of the policy being run
    quantum,       \* argument quantum of rr_run
    pc,            \* "idle", "fcfs_loop", "rr_loop" or "ret"
    i,             \* fcfs_run: loop index
    prev,          \* rr_run: index of the previously run process
    current_time,  \* fcfs_run / rr_run: elapsed time so far
    ret,           \* value returned by the last call of a policy or of rr_next
    last,          \* the last call made and the place it returned from
    ran,           \* history: per process, sum of effective run amounts of this run
    fin,           \* history: per process, elapsed time at which it terminated (-1: not yet)
    lastw,         \* history: per process, its wait when it was last dispatched
    order,         \* history: pids in the order the policy's dispatch steps ran them
    scanned,       \* history: records examined by the search loop of the last rr_next
    argv,          \* main: the arguments after the program name, each a sequence of characters
    status,        \* main: exit status (-1 while the program has not exited)
    output         \* main: the lines printed on standard output

vars == <<bursts, procs, plen, quantum, pc, i, prev, current_time, ret, last,
          ran, fin, lastw, order, scanned, argv, status, output>>

locals == <<plen, quantum, i, prev, current_time, ret>>
history == <<ran, fin, lastw, order, scanned>>
cli == <<argv, status, output>>

\* ---------------------------------------------------------------- bounds

\* One simulation (RunSpec).
MaxLen == 3        \* longest burst list drawn
MaxBurst == 3      \* largest burst drawn
MaxQuantum == 3    \* largest quantum drawn

\* A client calling the functions directly (Spec).
ApiLen == 2        \* longest burst list handed to init_procs
ApiBurst == 1      \* largest burst in it
ApiAmount == 2     \* largest amount passed to run_proc
ApiQuantum == 1    \* largest quantum passed to rr_run

NULL == << >>

\* The regression fixture of the documentation (bursts 5 8 2).
Fixture == <<5, 8, 2>>

RECURSIVE SeqsUpTo(_, _)
SeqsUpTo(S, n) ==
    IF n = 0 THEN {<< >>}
    ELSE LET shorter == SeqsUpTo(S, n - 1)
         IN shorter \cup {Append(s, x) : s \in {t \in shorter : Len(t) = n - 1}, x \in S}

\* Burst lists a run is started on: every list of 1..MaxLen bursts in
\* 0..MaxBurst, and the fixture.
RunBursts == (SeqsUpTo(0..MaxBurst, MaxLen) \ {<< >>}) \cup {Fixture}

\* Burst lists handed to init_procs directly: absent (NULL), and lists that
\* may hold a negative value (atoi of "-1").
ApiBursts == SeqsUpTo(-1..ApiBurst, ApiLen)

RECURSIVE SumSeq(_)
SumSeq(s) == IF s = << >> THEN 0 ELSE Head(s) + SumSeq(Tail(s))

Prefix(s, n) == SubSeq(s, 1, n)

Zeros(n) == [k \in 1..n |-> 0]
Unfinished(n) == [k \in 1..n |-> -1]

\* ------------------------------------------------------------ init_procs

\* init_pcb numbering the processes from 1.
init_pcb_from_one(b, idx) == [pid |-> idx + 1, burst_left |-> b[idx + 1], wait |-> 0]

\* The record the loop of init_procs writes at C index idx.
init_pcb(b, idx) == [pid |-> idx, burst_left |-> b[idx + 1], wait |-> 0]

\* The loop of init_procs from C index idx on: P holds the records written so far.
RECURSIVE init_fill(_, _, _, _)
init_fill(P, b, blen, idx) ==
    IF idx < blen THEN init_fill(Append(P, init_pcb(b, idx)), b, blen, idx + 1) ELSE P

init_procs(b, blen, malloc_ok) ==
    IF blen <= 0 \/ b = NULL THEN NULL
    ELSE IF ~malloc_ok THEN NULL
    ELSE init_fill(<< >>, b, blen, 0)

\* -------------------------------------------------------------- run_proc

\* run_proc_exit without the amount <= 0 test.
run_proc_exit_any_amount(P, n, current, amount) ==
    IF P = NULL \/ n <= 0 THEN "no_table"
    ELSE IF current < 0 \/ current >= n THEN "index"
    ELSE IF P[current + 1].burst_left <= 0 THEN "terminated"
    ELSE "ran"

\* Which return of run_proc a call leaves by.
run_proc_exit(P, n, current, amount) ==
    IF P = NULL \/ n <= 0 THEN "no_table"
    ELSE IF current < 0 \/ current >= n THEN "index"
    ELSE IF amount <= 0 THEN "amount"
    ELSE IF P[current + 1].burst_left <= 0 THEN "terminated"
    ELSE "ran"

\* actual_run without the cap at the remaining burst.
actual_run_uncapped(P, current, amount) == amount

actual_run(P, current, amount) ==
    IF P[current + 1].burst_left > amount THEN amount ELSE P[current + 1].burst_left

\* run_proc without the burst_left > 0 test of its wait loop: terminated
\* records keep accruing wait.
run_proc_no_freeze(P, n, current, amount) ==
    IF run_proc_exit(P, n, current, amount) # "ran" THEN P
    ELSE LET a == actual_run(P, current, amount)
         IN [k \in 1..Len(P) |->
               IF k - 1 = current THEN [P[k] EXCEPT !.burst_left = @ - a]
               ELSE IF k - 1 < n THEN [P[k] EXCEPT !.wait = @ + a]
                    ELSE P[k]]

\* run_proc crediting the wait before it charges the burst, to every record
\* but the one that follows current instead of every record but current.
run_proc_wrong_skip(P, n, current, amount) ==
    IF run_proc_exit(P, n, current, amount) # "ran" THEN P
    ELSE LET a == actual_run(P, current, amount)
         IN [k \in 1..Len(P) |->
               LET R == IF k - 1 = current THEN [P[k] EXCEPT !.burst_left = @ - a] ELSE P[k]
               IN IF k - 1 < n /\ k - 1 # (current + 1) % n /\ P[k].burst_left > 0
                  THEN [R EXCEPT !.wait = @ + a]
                  ELSE R]

run_proc(P, n, current, amount) ==
    IF run_proc_exit(P, n, current, amount) # "ran" THEN P
    ELSE LET a == actual_run(P, current, amount)
         IN [k \in 1..Len(P) |->
               IF k - 1 = current THEN [P[k] EXCEPT !.burst_left = @ - a]
               ELSE IF k - 1 < n /\ P[k].burst_left > 0
                    THEN [P[k] EXCEPT !.wait = @ + a]
                    ELSE P[k]]

\* --------------------------------------------------------------- rr_next

all_done(P, n) == \A k \in 1..n : ~(P[k].burst_left > 0)

\* The do-while search loop: idx is the record examined now, first the one
\* the search began at, seen the number of records examined before this one.
RECURSIVE rr_search(_, _, _, _, _)
rr_search(idx, first, P, n, seen) ==
    IF P[idx + 1].burst_left > 0 THEN [ret |-> idx, scanned |-> seen + 1]
    ELSE LET nxt == (idx + 1) % n
         IN IF nxt # first THEN rr_search(nxt, first, P, n, seen + 1)
            ELSE [ret |-> -1, scanned |-> seen + 1]

\* rr_start off by one: the search begins at current itself.
rr_start_stay(current, n) == IF current < 0 \/ current >= n THEN -1 ELSE current - 1

rr_start(current, n) == IF current < 0 \/ current >= n THEN -1 ELSE current

rr_next_call(current, P, n) ==
    IF P = NULL \/ n <= 0 THEN [ret |-> -1, scanned |-> 0]
    ELSE IF all_done(P, n) THEN [ret |-> -1, scanned |-> 0]
    ELSE LET idx == (rr_start(current, n) + 1) % n
         IN rr_search(idx, idx, P, n, 0)

rr_next(current, P, n) == rr_next_call(current, P, n).ret

\* ---------------------------------------------------- history bookkeeping

\* History after the policy dispatched process c (C index): P is the table
\* before the step, Q after it, t the elapsed time after it.  A step that
\* changed nothing ran nobody.
Dispatched(P, Q, c, t) ==
    /\ ran' = [ran EXCEPT ![c + 1] = @ + (P[c + 1].burst_left - Q[c + 1].burst_left)]
    /\ fin' = [k \in 1..Len(fin) |->
                 IF fin[k] = -1 /\ k = c + 1 /\ Q[k].burst_left = 0 THEN t ELSE fin[k]]
    /\ lastw' = [lastw EXCEPT ![c + 1] = Q[c + 1].wait]
    /\ order' = IF Q = P THEN order ELSE Append(order, Q[c + 1].pid)

ResetHistory(P) ==
    /\ ran' = Zeros(Len(P))
    /\ fin' = Unfinished(Len(P))
    /\ lastw' = Zeros(Len(P))
    /\ order' = << >>
    /\ scanned' = 0

\* -------------------------------------------------------------- fcfs_run

\* The arguments fcfs_run returns 0 on at once.
fcfs_degenerate(P, n) == P = NULL \/ n <= 0

\* fcfs_amount asking for one time unit only.
fcfs_amount_unit(P, idx) == 1

\* The amount fcfs_run asks for: the whole remaining burst.
fcfs_amount(P, idx) == P[idx + 1].burst_left

\* fcfs_run as one call: its loop from C index idx on, P the table and t the
\* elapsed time so far; the result is the table left and the value returned.
RECURSIVE fcfs_loop(_, _, _, _)
fcfs_loop(P, n, idx, t) ==
    IF ~(idx < n) THEN [procs |-> P, ret |-> t]
    ELSE IF P[idx + 1].burst_left <= 0 THEN fcfs_loop(P, n, idx + 1, t)
    ELSE LET amount == fcfs_amount(P, idx)
         IN fcfs_loop(run_proc(P, n, idx, amount), n, idx + 1, t + amount)

fcfs_run(P, n) ==
    IF fcfs_degenerate(P, n) THEN [procs |-> P, ret |-> 0] ELSE fcfs_loop(P, n, 0, 0)

CallFcfs(n) ==
    /\ UNCHANGED cli
    /\ pc = "idle"
    /\ plen' = n
    /\ ResetHistory(procs)
    /\ IF fcfs_degenerate(procs, n)
       THEN /\ pc' = "ret"
            /\ ret' = 0
            /\ last' = [fn |-> "fcfs_run", exit |-> "degenerate"]
            /\ UNCHANGED <<i, current_time>>
       ELSE /\ pc' = "fcfs_loop"
            /\ i' = 0
            /\ current_time' = 0
            /\ last' = [fn |-> "fcfs_run", exit |-> "running"]
            /\ UNCHANGED ret
    /\ UNCHANGED <<bursts, procs, quantum, prev>>

FcfsSkip ==
    /\ UNCHANGED cli
    /\ pc = "fcfs_loop"
    /\ i < plen
    /\ procs[i + 1].burst_left <= 0
    /\ i' = i + 1
    /\ UNCHANGED <<bursts, procs, plen, quantum, pc, prev, current_time, ret, last>>
    /\ UNCHANGED history

FcfsDispatch ==
    /\ UNCHANGED cli
    /\ pc = "fcfs_loop"
    /\ i < plen
    /\ ~(procs[i + 1].burst_left <= 0)
    /\ LET amount == fcfs_amount(procs, i)
           Q == run_proc(procs, plen, i, amount)
       IN /\ procs' = Q
          /\ current_time' = current_time + amount
          /\ Dispatched(procs, Q, i, current_time + amount)
    /\ i' = i + 1
    /\ UNCHANGED <<bursts, plen, quantum, pc, prev, ret, last, scanned>>

FcfsReturn ==
    /\ UNCHANGED cli
    /\ pc = "fcfs_loop"
    /\ ~(i < plen)
    /\ pc' = "ret"
    /\ ret' = current_time
    /\ last' = [fn |-> "fcfs_run", exit |-> "returned"]
    /\ UNCHANGED <<bursts, procs, plen, quantum, i, prev, current_time>>
    /\ UNCHANGED history

\* ---------------------------------------------------------------- rr_run

\* rr_degenerate without the quantum <= 0 test.
rr_degenerate_any_quantum(P, n, q) == P = NULL \/ n <= 0

\* The arguments rr_run returns 0 on at once.
rr_degenerate(P, n, q) == P = NULL \/ n <= 0 \/ q <= 0

\* rr_amount without the cap at the remaining burst.
rr_amount_uncapped(P, next, q) == q

\* rr_amount one short of the quantum.
rr_amount_short(P, next, q) ==
    IF P[next + 1].burst_left > q - 1 THEN q - 1 ELSE P[next + 1].burst_left

\* The amount rr_run asks for: the remaining burst, capped at the quantum.
rr_amount(P, next, q) ==
    IF P[next + 1].burst_left > q THEN q ELSE P[next + 1].burst_left

CallRr(n, q) ==
    /\ UNCHANGED cli
    /\ pc = "idle"
    /\ plen' = n
    /\ quantum' = q
    /\ ResetHistory(procs)
    /\ IF rr_degenerate(procs, n, q)
       THEN /\ pc' = "ret"
            /\ ret' = 0
            /\ last' = [fn |-> "rr_run", exit |-> "degenerate"]
            /\ UNCHANGED <<prev, current_time>>
       ELSE /\ pc' = "rr_loop"
            /\ prev' = -1
            /\ current_time' = 0
            /\ last' = [fn |-> "rr_run", exit |-> "running"]
            /\ UNCHANGED ret
    /\ UNCHANGED <<bursts, procs, i>>

RrDispatch ==
    /\ UNCHANGED cli
    /\ pc = "rr_loop"
    /\ LET r == rr_next_call(prev, procs, plen)
           next == rr_next(prev, procs, plen)
       IN /\ next # -1
          /\ LET amount == rr_amount(procs, next, quantum)
                 Q == run_proc(procs, plen, next, amount)
             IN /\ procs' = Q
                /\ current_time' = current_time + amount
                /\ Dispatched(procs, Q, next, current_time + amount)
          /\ prev' = next
          /\ scanned' = r.scanned
    /\ UNCHANGED <<bursts, plen, quantum, pc, i, ret, last>>

RrReturn ==
    /\ UNCHANGED cli
    /\ pc = "rr_loop"
    /\ rr_next(prev, procs, plen) = -1
    /\ pc' = "ret"
    /\ ret' = current_time
    /\ last' = [fn |-> "rr_run", exit |-> "returned"]
    /\ scanned' = rr_next_call(prev, procs, plen).scanned
    /\ UNCHANGED <<bursts, procs, plen, quantum, i, prev, current_time>>
    /\ UNCHANGED <<ran, fin, lastw, order>>

\* ------------------------------------------------- calls made by a client

\* init_procs(b, blen), called while the client holds no table: b may be
\* absent, blen may be wrong but never beyond b.
InitProcs(b, blen, malloc_ok) ==
    /\ UNCHANGED cli
    /\ pc = "idle"
    /\ procs = NULL
    /\ bursts' = b
    /\ procs' = init_procs(b, blen, malloc_ok)
    /\ pc' = "idle"
    /\ last' = [fn |-> "init_procs",
                exit |-> IF blen <= 0 \/ b = NULL THEN "bad_args"
                         ELSE IF ~malloc_ok THEN "no_memory" ELSE "ok"]
    /\ ran' = << >> /\ fin' = << >> /\ lastw' = << >> /\ order' = << >> /\ scanned' = 0
    /\ UNCHANGED locals

\* run_proc(procs, n, current, amount) called directly.
RunProc(n, current, amount) ==
    /\ UNCHANGED cli
    /\ pc = "idle"
    /\ procs' = run_proc(procs, n, current, amount)
    /\ last' = [fn |-> "run_proc", exit |-> run_proc_exit(procs, n, current, amount)]
    /\ UNCHANGED <<bursts, pc>>
    /\ UNCHANGED locals
    /\ UNCHANGED history

\* rr_next(current, procs, n) called directly.
RrNext(current, n) ==
    /\ UNCHANGED cli
    /\ pc = "idle"
    /\ pc' = "ret"
    /\ ret' = rr_next(current, procs, n)
    /\ scanned' = rr_next_call(current, procs, n).scanned
    /\ last' = [fn |-> "rr_next",
                exit |-> IF rr_next(current, procs, n) = -1 THEN "none" ELSE "found"]
    /\ UNCHANGED <<bursts, procs, plen, quantum, i, prev, current_time>>
    /\ UNCHANGED <<ran, fin, lastw, order>>

\* ------------------------------------------------------- specifications

NoCall == [fn |-> "none", exit |-> "none"]

\* The library driven by an arbitrary client: no table at first.
Init ==
    /\ bursts = NULL
    /\ procs = NULL
    /\ plen = 0 /\ quantum = 0 /\ i = 0 /\ prev = -1 /\ current_time = 0 /\ ret = 0
    /\ pc = "idle"
    /\ last = NoCall
    /\ ran = << >> /\ fin = << >> /\ lastw = << >> /\ order = << >> /\ scanned = 0
    /\ argv = << >> /\ status = -1 /\ output = << >>

Next ==
    \/ \E b \in ApiBursts, blen \in -1..ApiLen, ok \in BOOLEAN :
          /\ (b = NULL \/ blen <= Len(b))
          /\ InitProcs(b, blen, ok)
    \/ \E n \in -1..Len(procs), c \in -1..Len(procs), a \in -1..ApiAmount :
          RunProc(n, c, a)
    \/ \E n \in -1..Len(procs), c \in -2..(Len(procs) + 1) : RrNext(c, n)
    \/ \E n \in -1..Len(procs) : CallFcfs(n)
    \/ \E n \in -1..Len(procs), q \in -1..ApiQuantum : CallRr(n, q)
    \/ FcfsSkip
    \/ FcfsDispatch
    \/ FcfsReturn
    \/ RrDispatch
    \/ RrReturn

Spec == Init /\ [][Next]_vars

\* One simulation, as main runs it: a fresh table from init_procs, then one
\* policy over the whole table, with a positive quantum.
RunInit ==
    /\ bursts \in RunBursts
    /\ procs = init_procs(bursts, Len(bursts), TRUE)
    /\ plen = 0 /\ quantum = 0 /\ i = 0 /\ prev = -1 /\ current_time = 0 /\ ret = 0
    /\ pc = "idle"
    /\ last = [fn |-> "init_procs", exit |-> "ok"]
    /\ ran = Zeros(Len(bursts)) /\ fin = Unfinished(Len(bursts))
    /\ lastw = Zeros(Len(bursts)) /\ order = << >> /\ scanned = 0
    /\ argv = << >> /\ status = -1 /\ output = << >>

RunNext ==
    \/ CallFcfs(Len(procs))
    \/ \E q \in 1..MaxQuantum : CallRr(Len(procs), q)
    \/ FcfsSkip
    \/ FcfsDispatch
    \/ FcfsReturn
    \/ RrDispatch
    \/ RrReturn

RunSpec == RunInit /\ [][RunNext]_vars

\* The loops of a policy keep running until it returns.
RunLive == RunSpec /\ WF_vars(RunNext)

\* ------------------------------------------------------------------ main

MaxArgs == 4       \* most arguments after the program name

\* Argument words, as sequences of characters.
W_fcfs == <<"f", "c", "f", "s">>
W_rr == <<"r", "r">>
Words == {W_fcfs, W_rr, <<"0">>, <<"1">>, <<"2">>, <<"-", "1">>, <<"x">>, <<"2", "x">>}

Argvs == SeqsUpTo(Words, MaxArgs)

Digits == {"0", "1", "2", "3", "4", "5", "6", "7", "8", "9"}
DigitVal(ch) ==
    CASE ch = "0" -> 0 [] ch = "1" -> 1 [] ch = "2" -> 2 [] ch = "3" -> 3 [] ch = "4" -> 4
      [] ch = "5" -> 5 [] ch = "6" -> 6 [] ch = "7" -> 7 [] ch = "8" -> 8 [] ch = "9" -> 9

\* atoi: blanks, an optional sign, then the decimal digits up to the first
\* character that is not one (no digit at all gives 0).
RECURSIVE atoi_digits(_, _, _)
atoi_digits(w, k, acc) ==
    IF k <= Len(w) /\ w[k] \in Digits
    THEN atoi_digits(w, k + 1, acc * 10 + DigitVal(w[k]))
    ELSE acc

RECURSIVE atoi_from(_, _)
atoi_from(w, k) ==
    IF k > Len(w) THEN 0
    ELSE IF w[k] = " " THEN atoi_from(w, k + 1)
    ELSE IF w[k] = "-" THEN 0 - atoi_digits(w, k + 1, 0)
    ELSE IF w[k] = "+" THEN atoi_digits(w, k + 1, 0)
    ELSE atoi_digits(w, k, 0)

atoi(w) == atoi_from(w, 1)

\* A printed line: its fixed text and the numbers formatted into it.
Line(text, a, b) == [text |-> text, a |-> a, b |-> b]
ErrorLine == Line("ERROR: Missing arguments", 0, 0)

\* bursts[i] = atoi(argv[i + first]) for the arguments from position first on.
parse_bursts(av, first) == [k \in 1..(Len(av) - first + 1) |-> atoi(av[first + k - 1])]

accepted_lines(b) == [k \in 1..Len(b) |-> Line("Accepted P%d: Burst %d", k - 1, b[k])]

\* total_wait / plen as "%.2f" prints it, in hundredths.
avg_wait_hundredths(P, n) ==
    LET total_wait == SumSeq([k \in 1..n |-> P[k].wait])
    IN (200 * total_wait + n) \div (2 * n)

MemOutcomes == {"ok", "no_bursts", "no_procs"}

\* return 1: after the usage error on standard output, or after an
\* allocation failure (reported on standard error only).
MainFail(why) ==
    /\ pc' = "exit"
    /\ status' = 1
    /\ output' = IF why = "usage" THEN <<ErrorLine>> ELSE << >>
    /\ last' = [fn |-> "main", exit |-> why]
    /\ UNCHANGED <<bursts, procs, quantum>>

\* main up to its call of the policy; mem says which malloc, if any, fails.
MainStart(mem) ==
    /\ pc = "main"
    /\ IF Len(argv) + 1 < 2 THEN MainFail("usage")
       ELSE IF argv[1] = W_fcfs THEN
            IF Len(argv) + 1 < 3 THEN MainFail("usage")
            ELSE IF mem = "no_bursts" THEN MainFail("no_memory")
            ELSE LET b == parse_bursts(argv, 2)
                     P == init_procs(b, Len(argv) + 1 - 2, mem = "ok")
                 IN IF P = NULL THEN MainFail("no_memory")
                    ELSE /\ bursts' = b
                         /\ procs' = P
                         /\ last' = [fn |-> "init_procs", exit |-> "ok"]
                         /\ output' = <<Line("Using FCFS", 0, 0)>> \o accepted_lines(b)
                         /\ pc' = "idle"
                         /\ UNCHANGED <<status, quantum>>
       ELSE IF argv[1] = W_rr THEN
            IF Len(argv) + 1 < 4 THEN MainFail("usage")
            ELSE IF atoi(argv[2]) <= 0 \/ Len(argv) + 1 - 3 <= 0 THEN MainFail("usage")
            ELSE IF mem = "no_bursts" THEN MainFail("no_memory")
            ELSE LET b == parse_bursts(argv, 3)
                     P == init_procs(b, Len(argv) + 1 - 3, mem = "ok")
                 IN IF P = NULL THEN MainFail("no_memory")
                    ELSE /\ bursts' = b
                         /\ procs' = P
                         /\ last' = [fn |-> "init_procs", exit |-> "ok"]
                         /\ quantum' = atoi(argv[2])
                         /\ output' = <<Line("Using RR(%d).", atoi(argv[2]), 0)>> \o accepted_lines(b)
                         /\ pc' = "idle"
                         /\ UNCHANGED status
       ELSE MainFail("usage")
    /\ ran' = Zeros(Len(procs')) /\ fin' = Unfinished(Len(procs'))
    /\ lastw' = Zeros(Len(procs')) /\ order' = << >> /\ scanned' = 0
    /\ UNCHANGED <<argv, plen, i, prev, current_time, ret>>

MainCallFcfs ==
    /\ argv # << >> /\ argv[1] = W_fcfs
    /\ CallFcfs(Len(argv) + 1 - 2)

MainCallRr ==
    /\ argv # << >> /\ argv[1] = W_rr
    /\ CallRr(Len(argv) + 1 - 3, quantum)

\* main after the policy has returned: the average wait, then exit 0.
MainExit ==
    /\ pc = "ret"
    /\ pc' = "exit"
    /\ status' = 0
    /\ output' = Append(output, Line("Average wait time: %.2f",
                                     avg_wait_hundredths(procs, Len(procs)), 0))
    /\ UNCHANGED <<bursts, procs, plen, quantum, i, prev, current_time, ret, last, argv>>
    /\ UNCHANGED history

\* The program run on a command line.
MainInit ==
    /\ argv \in Argvs
    /\ pc = "main"
    /\ status = -1 /\ output = << >>
    /\ bursts = NULL /\ procs = NULL
    /\ plen = 0 /\ quantum = 0 /\ i = 0 /\ prev = -1 /\ current_time = 0 /\ ret = 0
    /\ last = NoCall
    /\ ran = << >> /\ fin = << >> /\ lastw = << >> /\ order = << >> /\ scanned = 0

MainNext ==
    \/ \E mem \in MemOutcomes : MainStart(mem)
    \/ MainCallFcfs
    \/ MainCallRr
    \/ FcfsSkip
    \/ FcfsDispatch
    \/ FcfsReturn
    \/ RrDispatch
    \/ RrReturn
    \/ MainExit

MainSpec == MainInit /\ [][MainNext]_vars

\* ================================================================ claims

Returned(fn) == pc = "ret" /\ last = [fn |-> fn, exit |-> "returned"]
Waits == [k \in 1..Len(procs) |-> procs[k].wait]
Count(s, x) == Cardinality({k \in 1..Len(s) : s[k] = x})

\* C1 as stated: at the return of fcfs_run or rr_run, every process with a
\* positive initial burst has wait + time run = the total elapsed time returned.
C1_WaitPlusRunIsTotal ==
    (Returned("fcfs_run") \/ Returned("rr_run")) =>
        \A k \in 1..Len(procs) :
            bursts[k] > 0 => procs[k].wait + ran[k] = ret

\* C1 (amended): at the return of fcfs_run or rr_run, every process with a
\* positive initial burst has wait + time run = the elapsed time at which it
\* terminated; that time is at most the total returned, and equals it exactly
\* for the process dispatched last.
C1_WaitPlusRunIsCompletion ==
    (Returned("fcfs_run") \/ Returned("rr_run")) =>
        \A k \in 1..Len(procs) :
            bursts[k] > 0 =>
                /\ fin[k] # -1
                /\ procs[k].wait + ran[k] = fin[k]
                /\ fin[k] <= ret
                /\ (fin[k] = ret <=> order[Len(order)] = k - 1)

\* A run has returned in which some process finished before the end.
C1_Witness ==
    /\ Returned("rr_run")
    /\ \E k \in 1..Len(procs) : bursts[k] > 0 /\ fin[k] < ret /\ procs[k].wait > 0

\* C2 as stated: rr_run on bursts 5 8 2 with quantum 2 returns 15 after the
\* dispatches P0 P1 P2 P0 P1 P2 P0 P1, P2 finishing with its 2nd quantum, P0
\* with its 3rd and P1 with its 4th.
C2_FixtureOrderAsStated ==
    (Returned("rr_run") /\ bursts = Fixture /\ quantum = 2) =>
        /\ ret = 15
        /\ order = <<0, 1, 2, 0, 1, 2, 0, 1>>
        /\ Count(order, 2) = 2 /\ Count(order, 0) = 3 /\ Count(order, 1) = 4

\* C2 (amended): rr_run on bursts 5 8 2 with quantum 2 returns 15 after the
\* dispatches P0 P1 P2 P0 P1 P0 P1 P1, P2 finishing with its 1st quantum (at
\* time 6), P0 with its 3rd (at time 11) and P1 with its 4th (at time 15).
C2_FixtureOrder ==
    (Returned("rr_run") /\ bursts = Fixture /\ quantum = 2) =>
        /\ ret = 15
        /\ order = <<0, 1, 2, 0, 1, 0, 1, 1>>
        /\ Count(order, 2) = 1 /\ Count(order, 0) = 3 /\ Count(order, 1) = 4
        /\ fin = <<11, 15, 6>>

\* rr_run on the fixture with quantum 2 has returned.
C2_Witness ==
    Returned("rr_run") /\ bursts = Fixture /\ quantum = 2 /\ Len(order) = 8

\* C3: after fcfs_run, every process with a positive initial burst has waited
\* the sum of the initial bursts of the processes before it; bursts 5 8 2
\* give elapsed time 15 and waits 0 5 13.
C3_FcfsWaits ==
    Returned("fcfs_run") =>
        /\ \A k \in 1..Len(procs) :
              bursts[k] > 0 => procs[k].wait = SumSeq(Prefix(bursts, k - 1))
        /\ bursts = Fixture => ret = 15 /\ Waits = <<0, 5, 13>>

\* fcfs_run has returned on the fixture.
C3_Witness ==
    Returned("fcfs_run") /\ bursts = Fixture /\ procs[3].wait = 13

\* C4: during rr_run, an unterminated process has accrued at most
\* (N - 1) * q wait since it was last dispatched (since the start of the run
\* when it has not been dispatched yet).
C4_RrWaitBound ==
    last.fn = "rr_run" =>
        \A k \in 1..plen :
            procs[k].burst_left > 0 =>
                procs[k].wait - lastw[k] <= (plen - 1) * quantum

\* In a run of three processes with a quantum of at least 2, a process that
\* has run before has waited the full bound since.
C4_Witness ==
    /\ last.fn = "rr_run" /\ pc = "rr_loop"
    /\ plen = 3 /\ quantum >= 2
    /\ \E k \in 1..plen :
          /\ procs[k].burst_left > 0
          /\ ran[k] > 0
          /\ procs[k].wait - lastw[k] = (plen - 1) * quantum

\* C5: fcfs_run and rr_run return, and the search loop of rr_next never
\* examines more than plen records.
C5_Terminates == <>(pc = "ret") /\ [](scanned <= plen)

\* rr_run has returned after a search that went a full lap of a table of
\* three records.
C5_Witness ==
    Returned("rr_run") /\ plen = 3 /\ Len(order) > 3 /\ order[Len(order)] = order[Len(order) - 1]

\* C8: fcfs_run returns the sum of the effective run amounts, which is the
\* sum of the initial bursts and the time at which the last process
\* finishes, and leaves every record with burst_left = 0.
C8_FcfsTotal ==
    Returned("fcfs_run") =>
        /\ ret = SumSeq(ran)
        /\ ret = SumSeq(bursts)
        /\ \A k \in 1..Len(procs) : fin[k] <= ret
        /\ ret > 0 => \E k \in 1..Len(procs) : fin[k] = ret
        /\ \A k \in 1..Len(procs) : procs[k].burst_left = 0

\* fcfs_run has returned after running at least two processes.
C8_Witness ==
    /\ Returned("fcfs_run")
    /\ Len(order) >= 2
    /\ \E k \in 1..Len(procs) : bursts[k] = 0

NonNegative(b) == \A k \in 1..Len(b) : b[k] >= 0

\* A step that is a call of run_proc: by the client, or by a policy.
RunProcStep ==
    \/ \E n \in -1..Len(procs), c \in -1..Len(procs), a \in -1..ApiAmount : RunProc(n, c, a)
    \/ FcfsDispatch
    \/ RrDispatch

\* C6: over any sequence of run_proc calls on a table of non-negative
\* bursts, no burst_left increases and no wait decreases, and a record whose
\* burst_left is 0 is left as it is.  (A call that changes no record
\* satisfies this at once, so only the steps that change the table are read.)
C6_Monotone ==
    [][(procs' # procs /\ NonNegative(bursts) /\ RunProcStep) =>
          \A k \in 1..Len(procs) :
              /\ procs'[k].burst_left <= procs[k].burst_left
              /\ procs'[k].wait >= procs[k].wait
              /\ procs[k].burst_left = 0 => procs'[k] = procs[k]]_vars

\* run_proc has just run a process while a record that terminated earlier,
\* having waited less than the process that is still unfinished, stood by.
C6_Witness ==
    /\ last = [fn |-> "run_proc", exit |-> "ran"]
    /\ NonNegative(bursts)
    /\ \E k, j \in 1..Len(procs) :
          /\ bursts[k] > 0 /\ procs[k].burst_left = 0
          /\ procs[j].burst_left > 0 /\ procs[j].wait > procs[k].wait

\* The run_proc calls C7 is about.
NoopArgs(n, c, a) ==
    \/ a <= 0
    \/ c < 0 \/ c >= n
    \/ n <= 0
    \/ (c \in 0..(n - 1) /\ procs[c + 1].burst_left = 0)

\* C7: a run_proc call with amount <= 0, an index outside [0, plen),
\* plen <= 0, or a target whose burst_left is 0 changes no field of any
\* record.  (Read the other way round: a run_proc call that changed the
\* table was none of these.)
C7_NoopUnchanged ==
    [][(pc = "idle" /\ last'.fn = "run_proc" /\ procs' # procs) =>
          \A n \in -1..Len(procs), c \in -1..Len(procs), a \in -1..ApiAmount :
              RunProc(n, c, a) => ~NoopArgs(n, c, a)]_vars

\* run_proc has just returned on amount <= 0 with a valid index of an
\* unterminated record, other records being unterminated too.
C7_Witness ==
    /\ last = [fn |-> "run_proc", exit |-> "amount"]
    /\ Len(procs) >= 2
    /\ \A k \in 1..Len(procs) : procs[k].burst_left > 0

\* C9: fcfs_run and rr_run on an absent or empty table, and rr_run with
\* quantum <= 0, return 0 at once and leave the table as it is.
C9_DegenerateReturnsZero ==
    [][pc = "idle" =>
       /\ \A n \in -1..Len(procs) :
             (CallFcfs(n) /\ (procs = NULL \/ n <= 0))
             => (pc' = "ret" /\ ret' = 0 /\ procs' = procs)
       /\ \A n \in -1..Len(procs), q \in -1..ApiQuantum :
             (CallRr(n, q) /\ (procs = NULL \/ n <= 0 \/ q <= 0))
             => (pc' = "ret" /\ ret' = 0 /\ procs' = procs)]_vars

\* rr_run has returned at once on quantum <= 0, given a whole table with
\* work left in it.
C9_Witness ==
    /\ pc = "ret"
    /\ last = [fn |-> "rr_run", exit |-> "degenerate"]
    /\ procs # NULL /\ plen = Len(procs) /\ quantum <= 0
    /\ \E k \in 1..Len(procs) : procs[k].burst_left > 0

\* C10: init_procs returns NULL on blen <= 0 or an absent burst list;
\* otherwise, allocation succeeding, it returns blen records in input order
\* with pid = position, burst_left = the burst given (0 allowed), wait = 0.
C10_InitProcs ==
    [][(pc = "idle" /\ procs = NULL) =>
       \A b \in ApiBursts, blen \in -1..ApiLen, ok \in BOOLEAN :
          ((b = NULL \/ blen <= Len(b)) /\ InitProcs(b, blen, ok)) =>
              IF blen <= 0 \/ b = NULL
              THEN procs' = NULL
              ELSE ok =>
                     /\ Len(procs') = blen
                     /\ \A k \in 1..blen :
                           /\ procs'[k].pid = k - 1
                           /\ procs'[k].burst_left = b[k]
                           /\ procs'[k].wait = 0]_vars

\* init_procs has just built a table of two records, one of burst 0.
C10_Witness ==
    /\ last = [fn |-> "init_procs", exit |-> "ok"]
    /\ Len(procs) = 2
    /\ procs[1].burst_left = 0 /\ procs[2].burst_left > 0 /\ procs[2].pid = 1

\* C11: a process whose initial burst is 0 is terminated from creation and
\* has wait 0 in every state of every fcfs_run or rr_run run.
C11_ZeroBurstNeverWaits ==
    \A k \in 1..Len(procs) :
        bursts[k] = 0 => procs[k].burst_left = 0 /\ procs[k].wait = 0

\* A run has returned in which a process of burst 0 stood beside one that
\* waited and one that ran.
C11_Witness ==
    /\ pc = "ret"
    /\ \E k, j \in 1..Len(procs) :
          bursts[k] = 0 /\ k < j /\ procs[j].wait > 0 /\ ret > procs[j].wait

\* C12 as stated: fcfs_run skips a record of initial burst 0, which accrues
\* as wait the effective amount of every step run for another process (so
\* the whole elapsed time, by the return).
C12_ZeroBurstAccruesWait ==
    Returned("fcfs_run") =>
        \A k \in 1..Len(procs) :
            bursts[k] = 0 =>
                /\ ran[k] = 0 /\ Count(order, k - 1) = 0
                /\ procs[k].wait = ret

\* C12 (amended): fcfs_run skips a record of initial burst 0 (no dispatch
\* step is issued for it and it adds nothing to the elapsed time, which is
\* the sum of the other bursts), and the record accrues no wait from the
\* dispatch steps of the other processes: its wait is 0 throughout.
C12_ZeroBurstSkipped ==
    last.fn = "fcfs_run" =>
        /\ \A k \in 1..Len(procs) :
              bursts[k] = 0 =>
                  /\ ran[k] = 0 /\ Count(order, k - 1) = 0 /\ fin[k] = -1
                  /\ procs[k].wait = 0
        /\ pc = "ret" =>
              ret = SumSeq(bursts)
        /\ Len(order) = Cardinality({k \in 1..Len(procs) : k <= i /\ bursts[k] # 0})

\* fcfs_run has returned after skipping a record of burst 0 placed between
\* two records it ran.
C12_Witness ==
    /\ Returned("fcfs_run")
    /\ Len(procs) = 3
    /\ bursts[1] > 0 /\ bursts[2] = 0 /\ bursts[3] > 0

InPolicy == last.fn \in {"fcfs_run", "rr_run"}

\* C19: during a run of fcfs_run or rr_run, a process of positive initial
\* burst that is unterminated has wait + time run = the elapsed time so far;
\* one that has terminated has wait + initial burst = the elapsed time at
\* which it terminated, whatever time has elapsed since.
C19_WaitAccounting ==
    InPolicy =>
        \A k \in 1..Len(procs) :
            bursts[k] > 0 =>
                IF procs[k].burst_left > 0
                THEN fin[k] = -1 /\ procs[k].wait + ran[k] = current_time
                ELSE /\ ran[k] = bursts[k]
                     /\ procs[k].wait + bursts[k] = fin[k]
                     /\ fin[k] <= current_time

\* In the middle of a round-robin run one process finished some time ago and
\* another, which has run and waited, is still unfinished.
C19_Witness ==
    /\ pc = "rr_loop"
    /\ \E k, j \in 1..Len(procs) :
          /\ bursts[k] > 0 /\ procs[k].burst_left = 0 /\ fin[k] < current_time
          /\ procs[j].burst_left > 0 /\ ran[j] > 0 /\ procs[j].wait > 0

\* Process p is unterminated after the first b dispatches of the run so far:
\* it is dispatched again later, or it is unfinished now.
AliveAfter(p, b) ==
    \/ \E m \in (b + 1)..Len(order) : order[m] = p
    \/ procs[p + 1].burst_left > 0

\* C16: in rr_run, between two consecutive dispatches of one process, every
\* other process is dispatched at most once, and exactly once when it is
\* still unterminated at the second of the two; and the process dispatched
\* after p is the next unterminated one in increasing index order, wrapping.
C16_RoundRobinOrder ==
    last.fn = "rr_run" =>
        /\ \A a, b \in 1..Len(order) :
              (/\ a < b
               /\ order[a] = order[b]
               /\ \A m \in (a + 1)..(b - 1) : order[m] # order[a])
              => \A p \in 0..(plen - 1) :
                    p # order[a] =>
                        LET times == Cardinality({m \in (a + 1)..(b - 1) : order[m] = p})
                        IN /\ times <= 1
                           /\ AliveAfter(p, b - 1) => times = 1
        /\ \A a \in 1..(Len(order) - 1) :
              \A p \in 0..(plen - 1) :
                  (/\ (p - order[a]) % plen \in 1..(plen - 1)
                   /\ (p - order[a]) % plen < ((order[a + 1] - order[a] - 1) % plen) + 1)
                  => ~AliveAfter(p, a)

\* A process of a three-process round-robin run has been dispatched twice in
\* a row, the others having terminated, after rounds in which all three ran.
C16_Witness ==
    /\ Returned("rr_run") /\ plen = 3
    /\ Len(order) >= 5
    /\ SubSeq(order, 1, 3) = <<0, 1, 2>>
    /\ order[Len(order)] = order[Len(order) - 1]

BurstSum(P) == SumSeq([k \in 1..Len(P) |-> P[k].burst_left])
Min(a, b) == IF a < b THEN a ELSE b

\* C17: an iteration of the rr_run loop that dispatches a process runs it
\* for exactly min(quantum, its burst_left), which is at least 1 and at most
\* quantum, so the sum of all burst_left drops by that much and stays >= 0;
\* the loop exits exactly when rr_next returns -1, that is when no record
\* has burst_left > 0.
C17_RrIteration ==
    [][pc = "rr_loop" =>
          /\ pc' = "ret" <=> rr_next(prev, procs, plen) = -1
          /\ pc' = "ret" <=> (\A k \in 1..plen : procs[k].burst_left <= 0)
          /\ pc' = "rr_loop" =>
                LET next == prev'
                    e == Min(quantum, procs[next + 1].burst_left)
                IN /\ procs[next + 1].burst_left > 0
                   /\ current_time' - current_time = e
                   /\ ran'[next + 1] - ran[next + 1] = e
                   /\ procs'[next + 1].burst_left = procs[next + 1].burst_left - e
                   /\ 1 <= e /\ e <= quantum
                   /\ BurstSum(procs') = BurstSum(procs) - e
                   /\ BurstSum(procs') <= BurstSum(procs) - 1
                   /\ BurstSum(procs') >= 0]_vars

\* A round-robin run has given one process a full quantum of 2 or more and
\* another process a shorter last slice, and has left the loop.
C17_Witness ==
    /\ Returned("rr_run")
    /\ quantum >= 2
    /\ \E k, j \in 1..Len(procs) :
          /\ bursts[k] > quantum
          /\ bursts[j] > 0 /\ bursts[j] % quantum # 0

\* C18: rr_run returns what fcfs_run returns on an identical table, the sum
\* of the initial bursts, which is the time the last process completes, and
\* both leave every record with burst_left = 0.
C18_RrTotalIsFcfsTotal ==
    Returned("rr_run") =>
        LET f == fcfs_run(init_procs(bursts, Len(bursts), TRUE), plen)
        IN /\ ret = f.ret
           /\ ret = SumSeq(bursts)
           /\ \A k \in 1..Len(procs) : fin[k] <= ret
           /\ ret > 0 => \E k \in 1..Len(procs) : fin[k] = ret
           /\ \A k \in 1..Len(procs) :
                 procs[k].burst_left = 0 /\ f.procs[k].burst_left = 0

\* rr_run has returned on three processes it had to interleave, leaving
\* waits that differ from those of fcfs_run on the same bursts.
C18_Witness ==
    /\ Returned("rr_run") /\ Len(procs) = 3
    /\ \A k \in 1..3 : bursts[k] > quantum
    /\ procs # fcfs_run(init_procs(bursts, Len(bursts), TRUE), plen).procs

\* fcfs_run as one call returns what its loop, taken step by step, returns.
FcfsCallIsFcfsSteps ==
    Returned("fcfs_run") =>
        fcfs_run(init_procs(bursts, Len(bursts), TRUE), plen) = [procs |-> procs, ret |-> ret]

SearchFrom(current, n) == IF current < 0 \/ current >= n THEN 0 ELSE (current + 1) % n

IsNonNegInt(w) == w # << >> /\ \A k \in 1..Len(w) : w[k] \in Digits
IsPosInt(w) == IsNonNegInt(w) /\ \E k \in 1..Len(w) : w[k] # "0"

\* The command lines C13 counts as valid.
ValidArgs(av) ==
    /\ Len(av) >= 1
    /\ \/ /\ av[1] = W_fcfs
          /\ Len(av) >= 2
          /\ \A k \in 2..Len(av) : IsNonNegInt(av[k])
       \/ /\ av[1] = W_rr
          /\ Len(av) >= 3
          /\ IsPosInt(av[2])
          /\ \A k \in 3..Len(av) : IsNonNegInt(av[k])

\* C13: the program prints "ERROR: Missing arguments" and exits with status 1
\* whenever its arguments are missing or invalid (no policy word, an unknown
\* policy, no burst, a quantum that is absent or no positive integer, a burst
\* that is no non-negative integer), and exits with status 0 only when all
\* its arguments are valid.  (Runs in which malloc fails are left aside.)
C13_InvalidArgumentsRejected ==
    (pc = "exit" /\ last.exit # "no_memory") =>
        /\ ~ValidArgs(argv) => (status = 1 /\ output = <<ErrorLine>>)
        /\ status = 0 => ValidArgs(argv)

\* What the program does check: the policy word, the number of arguments and
\* the value atoi gives the quantum.  It rejects exactly the command lines
\* that fail these, and takes a burst for whatever atoi makes of it.
MainRejectsOnlyByShape ==
    pc = "exit" =>
        LET shape == /\ Len(argv) >= 1
                     /\ \/ argv[1] = W_fcfs /\ Len(argv) >= 2
                        \/ argv[1] = W_rr /\ Len(argv) >= 3 /\ atoi(argv[2]) > 0
        IN /\ ~shape <=> output = <<ErrorLine>>
           /\ status = 0 => shape
           /\ ~shape => status = 1

====
